---- MODULE Spec2Model ----
(***************************************************************************)
(* Model of the gold-market front end.                                     *)
(*                                                                         *)
(*   src/frontend/js/api.js  the Request Client: API.getCSRFToken,         *)
(*                           API.getHeaders, API.handleResponse, the four  *)
(*                           verbs and API.requestWithRetry                *)
(*   src/js/app.js           the View Controller: GoldMarketApp            *)
(*                                                                         *)
(* Five specifications share the variables below; each one drives one      *)
(* group of variables and leaves the others at rest.                       *)
(*   SpecHeaders   the verbs called directly, for the headers they send    *)
(*   SpecResponse  API.handleResponse applied to one response              *)
(*   SpecRetry     one call of API.requestWithRetry                        *)
(*   SpecApp       the life of one GoldMarketApp instance                  *)
(*   SpecBanners   showSuccess and showError called at any time            *)
(***************************************************************************)
EXTENDS Integers, Sequences, FiniteSets, TLC

VARIABLES
    cookie,       \* document.cookie, as a sequence of <<name, value>> pairs
    meta,         \* the <meta name="csrf-token"> element: present?, content
    sent,         \* the HTTP requests handed to fetch(), oldest first
    response,     \* SpecResponse: the Response given to handleResponse
    outcome,      \* SpecResponse: what handleResponse did with it
    rpc,          \* requestWithRetry: where the call stands
    rMethod,      \* requestWithRetry: argument method
    rData,        \* requestWithRetry: argument data
    rRetry,       \* requestWithRetry: options.retryAttempts
    attempt,      \* requestWithRetry: the loop variable
    lastError,    \* requestWithRetry: the local lastError
    rResult,      \* requestWithRetry: the value returned or the error thrown
    served,       \* the statuses the server answered with (0: no answer)
    delays,       \* the setTimeout delays requestWithRetry waited for
    invocations,  \* how many times requestWithRetry invoked the verb
    goldPrices,     \* GoldMarketApp: the four snapshots
    currencyRates,
    storeInfo,
    marketStatus,
    updateInterval, \* GoldMarketApp: the timer handles (0: null)
    clockInterval,
    initPc,         \* where init() stands
    inflight,       \* the fetches awaiting their response
    intervals,      \* the runtime's live setInterval timers
    nextTimerId,    \* the id the next setInterval returns
    listeners,      \* attachEventListeners has run
    goldGrid,       \* what #gold-prices-grid shows (-1: never rendered)
    currencyGrid,   \* what #currency-rates-grid shows (-1: never rendered)
    statusShown,    \* what the status indicator shows
    storeShown,     \* what the store fields show (-1: never rendered)
    errorBanner,    \* the content of #error-container
    clockText,      \* what #clock shows: the second of the last updateClock
    ticks,          \* how many times the refresh timer fired
    stops,          \* how many times stopAutoUpdate was invoked: 0, 1, 2 or more
    errorsShown,    \* how many times showError wrote the banner
    failedInit,     \* the entities whose fetch by init() failed
    failedTick,     \* the entities a fetch of which by the refresh timer failed
    tickFetched,    \* the entities the refresh timer's last firing fetched
    tickOpen,       \* whether the server's market was open when the refresh timer last fired
    successBanner,  \* the content of #success-container
    successTimeouts,\* showSuccess's pending setTimeout callbacks: ms left, oldest first
    successAge,     \* ms since #success-container was last written by showSuccess
    shows           \* how many times showSuccess or showError was called directly

docVars   == <<cookie, meta>>
respVars  == <<response, outcome>>
retryVars == <<rpc, rMethod, rData, rRetry, attempt, lastError, rResult,
               served, delays, invocations>>
appVars   == <<goldPrices, currencyRates, storeInfo, marketStatus,
               updateInterval, clockInterval, initPc, inflight, intervals,
               nextTimerId, listeners, goldGrid, currencyGrid, statusShown,
               storeShown, errorBanner, clockText, ticks, stops, errorsShown, failedInit, failedTick,
               tickFetched, tickOpen, successBanner, successTimeouts,
               successAge, shows>>
vars      == <<cookie, meta, sent, response, outcome, rpc, rMethod, rData,
               rRetry, attempt, lastError, rResult, served, delays,
               invocations, goldPrices, currencyRates, storeInfo, marketStatus,
               updateInterval, clockInterval, initPc, inflight, intervals,
               nextTimerId, listeners, goldGrid, currencyGrid, statusShown,
               storeShown, errorBanner, clockText, ticks, stops, errorsShown, failedInit, failedTick,
               tickFetched, tickOpen, successBanner, successTimeouts,
               successAge, shows>>
bannerVars == <<successBanner, successTimeouts, successAge, shows>>

(***************************************************************************)
(* Bounds of the model.                                                    *)
(***************************************************************************)
MaxCookies == 2     \* cookies in document.cookie
MaxSent    == 2     \* direct verb calls in SpecHeaders
MaxCeiling == 3     \* largest options.retryAttempts passed
MaxTicks   == 2     \* firings of the refresh timer
MaxShows   == 3     \* direct calls of showSuccess and showError

(***************************************************************************)
(* API_CONFIG                                                              *)
(***************************************************************************)
RETRY_ATTEMPTS == 3
RETRY_DELAY    == 1000

\* The delay of showSuccess's setTimeout, in ms.
SUCCESS_CLEAR_DELAY == 5000

(***************************************************************************)
(* Values.                                                                 *)
(***************************************************************************)
Verbs         == {"get", "post", "put", "delete"}
MutatingVerbs == {"post", "put", "delete"}

CookieNames  == {"csrf_token", "xcsrf_token", "sid"}
CookieValues == {"", "a", "b"}
CookieJars   == UNION {[1..n -> CookieNames \X CookieValues] : n \in 0..MaxCookies}
Metas        == {[present |-> FALSE, content |-> ""],
                 [present |-> TRUE,  content |-> ""],
                 [present |-> TRUE,  content |-> "m"]}

\* A JavaScript value that is null or a string.
NullToken  == [null |-> TRUE, v |-> ""]
StrToken(s) == [null |-> FALSE, v |-> s]
\* JavaScript truthiness of such a value: null and "" are falsy.
Truthy(t) == ~t.null /\ t.v # ""

\* A parsed JSON payload: null, or an object whose fields may be missing.
NullPayload == [null |-> TRUE, hasMessage |-> FALSE, message |-> "",
                hasCode |-> FALSE, code |-> "", success |-> FALSE, data |-> 0]
Object(hm, m, hc, c, s, d) ==
    [null |-> FALSE, hasMessage |-> hm, message |-> IF hm THEN m ELSE "",
     hasCode |-> hc, code |-> IF hc THEN c ELSE "", success |-> s, data |-> d]
Payloads ==
    {NullPayload} \cup
    {Object(hm, m, hc, c, s, 0) :
        hm \in BOOLEAN, m \in {"", "msg"}, hc \in BOOLEAN, c \in {"", "E_X"},
        s \in BOOLEAN}
\* A response body: text that parses to a payload, or text that does not.
Unparseable == [parses |-> FALSE, json |-> NullPayload]
Parsed(p)   == [parses |-> TRUE, json |-> p]
Bodies      == {Unparseable} \cup {Parsed(p) : p \in Payloads}
Statuses    == {200, 204, 304, 400, 404, 499, 500, 503}
Responses   == [status : Statuses, body : Bodies]

\* Errors: the Error built by handleResponse, the TypeError of the runtime,
\* and the value undefined (a lastError that was never assigned).
UndefinedError == [name |-> "undefined", message |-> "", hasStatus |-> FALSE,
                   status |-> 0, code |-> "", data |-> NullPayload]
TypeError(msg) == [name |-> "TypeError", message |-> msg, hasStatus |-> FALSE,
                   status |-> 0, code |-> "", data |-> NullPayload]

NoRequest == [method |-> "", hasCSRF |-> FALSE, csrf |-> "", query |-> FALSE,
              hasBody |-> FALSE, credentials |-> ""]

(***************************************************************************)
(* API.getCSRFToken: the first match of /csrf_token=([^;]+)/ in            *)
(* document.cookie, else the content of the meta tag, else null.  The      *)
(* pattern is not anchored: it matches at any cookie whose name ends in    *)
(* csrf_token, and [^;]+ needs a value of at least one character.          *)
(***************************************************************************)
EndsWithCsrfToken(name) == name \in {"csrf_token", "xcsrf_token"}
CookieMatches(jar) ==
    {i \in 1..Len(jar) : EndsWithCsrfToken(jar[i][1]) /\ jar[i][2] # ""}
FirstMatch(jar) ==
    CHOOSE i \in CookieMatches(jar) : \A j \in CookieMatches(jar) : i <= j

getCSRFToken ==
    IF CookieMatches(cookie) # {} THEN StrToken(cookie[FirstMatch(cookie)][2])
    ELSE IF meta.present THEN StrToken(meta.content)
    ELSE NullToken

(***************************************************************************)
(* API.getHeaders                                                          *)
(***************************************************************************)
getHeadersNoFlag(includeCSRF) ==
    LET csrfToken == getCSRFToken
    IN  [ContentType |-> "application/json", Accept |-> "application/json",
         hasCSRF |-> Truthy(csrfToken),
         csrf |-> IF Truthy(csrfToken) THEN csrfToken.v ELSE ""]

getHeaders(includeCSRF) ==
    LET csrfToken == getCSRFToken
        inject    == includeCSRF /\ Truthy(csrfToken)
    IN  [ContentType |-> "application/json", Accept |-> "application/json",
         hasCSRF |-> inject,
         csrf |-> IF inject THEN csrfToken.v ELSE ""]

(***************************************************************************)
(* API.handleResponse.  Response.ok is the runtime's: status in 200..299.  *)
(***************************************************************************)
ResponseOk(resp) == resp.status >= 200 /\ resp.status <= 299

\* response.json().catch(() => null)
ParseBody(resp) == IF resp.body.parses THEN resp.body.json ELSE NullPayload

\* data?.message || `HTTP ${response.status}`
ErrorMessage(data, status) ==
    IF ~data.null /\ data.hasMessage /\ data.message # ""
    THEN data.message ELSE "HTTP " \o ToString(status)

\* data?.code || 'UNKNOWN_ERROR'
ErrorCode(data) ==
    IF ~data.null /\ data.hasCode /\ data.code # ""
    THEN data.code ELSE "UNKNOWN_ERROR"

Returned(v) == [threw |-> FALSE, value |-> v, error |-> UndefinedError]
Thrown(e)   == [threw |-> TRUE, value |-> NullPayload, error |-> e]
NoOutcome   == [threw |-> FALSE, value |-> NullPayload, error |-> UndefinedError]

handleResponseBelow400(resp) ==
    LET data == ParseBody(resp)
    IN  IF resp.status >= 400
        THEN Thrown([name |-> "Error",
                     message |-> ErrorMessage(data, resp.status),
                     hasStatus |-> TRUE, status |-> resp.status,
                     code |-> ErrorCode(data), data |-> data])
        ELSE Returned(data)

handleResponse(resp) ==
    LET data == ParseBody(resp)
    IN  IF ~ResponseOk(resp)
        THEN Thrown([name |-> "Error",
                     message |-> ErrorMessage(data, resp.status),
                     hasStatus |-> TRUE, status |-> resp.status,
                     code |-> ErrorCode(data), data |-> data])
        ELSE Returned(data)

(***************************************************************************)
(* The verbs, up to the call of fetch(): the request each one sends.       *)
(* Data is a value null, or an object that may carry a params field.       *)
(***************************************************************************)
NullData  == [null |-> TRUE, params |-> FALSE]
DataValues == {NullData, [null |-> FALSE, params |-> FALSE],
               [null |-> FALSE, params |-> TRUE]}

Request(method, headers, query, hasBody) ==
    [method |-> method, hasCSRF |-> headers.hasCSRF, csrf |-> headers.csrf,
     query |-> query, hasBody |-> hasBody, credentials |-> "include"]

get(options)  == Request("GET", getHeaders(FALSE), options.params, FALSE)
post(data)    == Request("POST", getHeaders(TRUE), FALSE, TRUE)
put(data)     == Request("PUT", getHeaders(TRUE), FALSE, TRUE)
delete        == Request("DELETE", getHeaders(TRUE), FALSE, FALSE)


(***************************************************************************)
(* SpecHeaders: a page whose cookies and meta tag are any of the bounded   *)
(* combinations calls the verbs directly.                                  *)
(***************************************************************************)
\* The GoldMarketApp instance as its constructor leaves it, before init().
AppIdle ==
    /\ goldPrices = 0 /\ currencyRates = 0 /\ storeInfo = 0
    /\ marketStatus = [isOpen |-> FALSE]
    /\ updateInterval = 0 /\ clockInterval = 0
    /\ initPc = "constructed" /\ inflight = {} /\ intervals = {}
    /\ nextTimerId = 1 /\ listeners = FALSE
    /\ goldGrid = -1 /\ currencyGrid = -1 /\ statusShown = "template"
    /\ storeShown = -1 /\ errorBanner = "" /\ clockText = "none"
    /\ ticks = 0 /\ stops = 0 /\ errorsShown = 0
    /\ failedInit = {} /\ failedTick = {} /\ tickFetched = {}
    /\ tickOpen = FALSE
    /\ successBanner = "" /\ successTimeouts = <<>>
    /\ successAge = 0 /\ shows = 0

RetryIdle ==
    /\ rpc = "idle" /\ rMethod = "get" /\ rData = NullData
    /\ rRetry = [given |-> FALSE, n |-> 0]
    /\ attempt = 0 /\ lastError = UndefinedError /\ rResult = NoOutcome
    /\ served = <<>> /\ delays = <<>> /\ invocations = 0

RespIdle ==
    /\ response = [status |-> 200, body |-> Unparseable]
    /\ outcome = [handled |-> FALSE, result |-> NoOutcome]

InitHeaders ==
    /\ AppIdle
    /\ cookie \in CookieJars
    /\ meta \in Metas
    /\ sent = <<>>
    /\ RespIdle
    /\ RetryIdle

CallGet(options) ==
    /\ Len(sent) < MaxSent
    /\ sent' = Append(sent, get(options))
    /\ UNCHANGED <<appVars, docVars, respVars, retryVars>>

CallPost(data) ==
    /\ Len(sent) < MaxSent
    /\ sent' = Append(sent, post(data))
    /\ UNCHANGED <<appVars, docVars, respVars, retryVars>>

CallPut(data) ==
    /\ Len(sent) < MaxSent
    /\ sent' = Append(sent, put(data))
    /\ UNCHANGED <<appVars, docVars, respVars, retryVars>>

CallDelete ==
    /\ Len(sent) < MaxSent
    /\ sent' = Append(sent, delete)
    /\ UNCHANGED <<appVars, docVars, respVars, retryVars>>

NextHeaders ==
    \/ \E o \in DataValues \ {NullData} : CallGet(o)
    \/ \E d \in DataValues : CallPost(d)
    \/ \E d \in DataValues : CallPut(d)
    \/ CallDelete

SpecHeaders == InitHeaders /\ [][NextHeaders]_vars

(***************************************************************************)
(* SpecResponse: handleResponse applied to any of the bounded responses.   *)
(***************************************************************************)
DocIdle ==
    /\ cookie = <<<<"csrf_token", "a">>>>
    /\ meta = [present |-> FALSE, content |-> ""]

InitResponse ==
    /\ AppIdle
    /\ DocIdle
    /\ sent = <<>>
    /\ response \in Responses
    /\ outcome = [handled |-> FALSE, result |-> NoOutcome]
    /\ RetryIdle

HandleResponse ==
    /\ ~outcome.handled
    /\ outcome' = [handled |-> TRUE, result |-> handleResponse(response)]
    /\ UNCHANGED <<appVars, docVars, sent, response, retryVars>>

NextResponse == HandleResponse

SpecResponse == InitResponse /\ [][NextResponse]_vars

(***************************************************************************)
(* SpecRetry: one call of API.requestWithRetry against a server that may   *)
(* answer each exchange with any status, or not at all.                    *)
(***************************************************************************)
\* options.retryAttempts: not given, or a number.
RetryOptions ==
    {[given |-> FALSE, n |-> 0]} \cup {[given |-> TRUE, n |-> k] : k \in -1..MaxCeiling}

\* options.retryAttempts || API_CONFIG.RETRY_ATTEMPTS
maxAttemptsOneMore(o) == (IF o.given /\ o.n # 0 THEN o.n ELSE RETRY_ATTEMPTS) + 1

maxAttempts(o) == IF o.given /\ o.n # 0 THEN o.n ELSE RETRY_ATTEMPTS

\* error.status >= 400 && error.status < 500
IsClientErrorNarrow(e) == e.hasStatus /\ e.status > 400 /\ e.status < 500

IsClientError(e) == e.hasStatus /\ e.status >= 400 /\ e.status < 500

\* this[method](endpoint, data, options): post and put take (endpoint, data,
\* options); get and delete take (endpoint, options), so that get receives
\* data as its options and reads options.params of it.
InvokeVerb(method, data) ==
    CASE method = "get" ->
            IF data.null
            THEN [threw |-> TRUE, request |-> NoRequest,
                  error |-> TypeError("Cannot read properties of null")]
            ELSE [threw |-> FALSE, request |-> get(data), error |-> UndefinedError]
      [] method = "post" ->
            [threw |-> FALSE, request |-> post(data), error |-> UndefinedError]
      [] method = "put" ->
            [threw |-> FALSE, request |-> put(data), error |-> UndefinedError]
      [] method = "delete" ->
            [threw |-> FALSE, request |-> delete, error |-> UndefinedError]

\* The bodies the server sends in SpecRetry.
SuccessBody == Parsed(Object(FALSE, "", FALSE, "", TRUE, 1))
FailureBody == Parsed(Object(TRUE, "msg", TRUE, "E_X", FALSE, 0))
RetryStatuses == {200, 400, 404, 499, 500, 503}
ServerResponse(status) ==
    [status |-> status,
     body |-> IF status >= 200 /\ status <= 299 THEN SuccessBody ELSE FailureBody]

InitRetry ==
    /\ AppIdle
    /\ DocIdle
    /\ sent = <<>>
    /\ RespIdle
    /\ RetryIdle

\* The call, up to the head of the loop.
RequestWithRetry(method, data, options) ==
    /\ rpc = "idle"
    /\ rMethod' = method
    /\ rData' = data
    /\ rRetry' = options
    /\ attempt' = 1
    /\ rpc' = "loop"
    /\ UNCHANGED <<appVars, docVars, sent, respVars, lastError, rResult, served, delays,
                   invocations>>

\* The catch block, with the rest of the iteration when nothing is awaited.
Catch(error) ==
    /\ lastError' = error
    /\ IF IsClientError(error)
       THEN /\ rpc' = "rejected"
            /\ rResult' = Thrown(error)
            /\ UNCHANGED <<attempt, delays>>
       ELSE IF attempt < maxAttempts(rRetry)
       THEN /\ rpc' = "wait"
            /\ delays' = Append(delays, RETRY_DELAY * attempt)
            /\ UNCHANGED <<attempt, rResult>>
       ELSE /\ attempt' = attempt + 1
            /\ rpc' = "rejected"
            /\ rResult' = Thrown(error)
            /\ UNCHANGED delays

\* The loop test and the invocation of the verb, up to its fetch().
LoopTop ==
    /\ rpc = "loop"
    /\ IF attempt <= maxAttempts(rRetry)
       THEN LET inv == InvokeVerb(rMethod, rData)
            IN  /\ invocations' = invocations + 1
                /\ IF inv.threw
                   THEN /\ Catch(inv.error)
                        /\ UNCHANGED sent
                   ELSE /\ sent' = Append(sent, inv.request)
                        /\ rpc' = "inflight"
                        /\ UNCHANGED <<attempt, lastError, rResult, delays>>
       ELSE /\ rpc' = "rejected"
            /\ rResult' = Thrown(lastError)
            /\ UNCHANGED <<sent, attempt, lastError, delays, invocations>>
    /\ UNCHANGED <<appVars, docVars, respVars, rMethod, rData, rRetry, served>>

\* fetch() rejects: no response arrived.
NetworkFailure ==
    /\ rpc = "inflight"
    /\ served' = Append(served, 0)
    /\ Catch(TypeError("Failed to fetch"))
    /\ UNCHANGED <<appVars, docVars, sent, respVars, rMethod, rData, rRetry, invocations>>

\* fetch() resolves: the verb hands the response to handleResponse.
Respond(status) ==
    /\ rpc = "inflight"
    /\ served' = Append(served, status)
    /\ LET r == handleResponse(ServerResponse(status))
       IN  IF r.threw
           THEN Catch(r.error)
           ELSE /\ rpc' = "returned"
                /\ rResult' = r
                /\ UNCHANGED <<attempt, lastError, delays>>
    /\ UNCHANGED <<appVars, docVars, sent, respVars, rMethod, rData, rRetry, invocations>>

\* The backoff timer fires: the next iteration begins.
WaitDone ==
    /\ rpc = "wait"
    /\ attempt' = attempt + 1
    /\ rpc' = "loop"
    /\ UNCHANGED <<appVars, docVars, sent, respVars, rMethod, rData, rRetry, lastError,
                   rResult, served, delays, invocations>>

NextRetry ==
    \/ \E m \in Verbs, d \in DataValues, o \in RetryOptions : RequestWithRetry(m, d, o)
    \/ LoopTop
    \/ NetworkFailure
    \/ \E s \in RetryStatuses : Respond(s)
    \/ WaitDone

SpecRetry == InitRetry /\ [][NextRetry]_vars


(***************************************************************************)
(* Properties of the Request Client.                                       *)
(***************************************************************************)
IsPrefix(s, t) == Len(s) <= Len(t) /\ \A i \in 1..Len(s) : s[i] = t[i]
Finished == rpc \in {"returned", "rejected"}

\* The server of C1: 503, 503, then success.
FailTwiceThenSucceed == <<503, 503, 200>>

\* C1: with the default configuration and a server that answers 503, 503 and
\* then a success, a finished call of requestWithRetry, whatever the verb,
\* has returned the success payload after exactly 3 invocations and 3 HTTP
\* exchanges, having waited 1000 ms and then 2000 ms.
C1_SucceedsOnThirdAttempt ==
    (Finished /\ ~rRetry.given /\ IsPrefix(served, FailTwiceThenSucceed))
        => /\ rpc = "returned"
           /\ rResult = Returned(SuccessBody.json)
           /\ invocations = 3
           /\ Len(sent) = 3
           /\ served = FailTwiceThenSucceed
           /\ delays = <<RETRY_DELAY, 2 * RETRY_DELAY>>

\* The error handleResponse raises for the status the server sent.
ErrorOfStatus(status) == handleResponse(ServerResponse(status)).error

\* C2: once an exchange has been answered with a status in [400, 500), that
\* exchange is the last one: the call is rejected with the error of that
\* response, no attempt follows it and no delay was started after it.
C2_ClientErrorRejectsAtOnce ==
    \A i \in 1..Len(served) :
        (served[i] >= 400 /\ served[i] < 500)
            => /\ i = Len(served)
               /\ rpc = "rejected"
               /\ rResult = Thrown(ErrorOfStatus(served[i]))
               /\ invocations = i
               /\ Len(sent) = i
               /\ Len(delays) = i - 1

\* C2 witness: a 404 on the second of three allowed attempts ended the call.
C2_Witness ==
    /\ rpc = "rejected"
    /\ rRetry = [given |-> TRUE, n |-> 3]
    /\ served = <<503, 404>>
    /\ rResult.error.status = 404
    /\ delays = <<RETRY_DELAY>>

\* Every attempt made so far failed with a failure that is retried: the verb
\* threw before any exchange, the exchange got no answer, or the answer was
\* neither a success nor in [400, 500).
AllAttemptsRetriable ==
    \A i \in 1..Len(served) : served[i] = 0 \/ served[i] >= 500

\* The error the last attempt ended with.
LastAttemptError ==
    IF served = <<>> THEN InvokeVerb(rMethod, rData).error
    ELSE IF served[Len(served)] = 0 THEN TypeError("Failed to fetch")
    ELSE ErrorOfStatus(served[Len(served)])

\* What C3 says of a call whose ceiling is n.
CeilingRespected(n) ==
    /\ invocations <= n
    /\ (Finished /\ AllAttemptsRetriable)
          => /\ invocations = n
             /\ Len(delays) = n - 1
             /\ rpc = "rejected"
             /\ rResult = Thrown(LastAttemptError)

\* C3 as stated: for any ceiling N >= 0 given in options.retryAttempts, and
\* for 3 when none is given, at most N attempts are made, and exactly N, with
\* N - 1 delays, when all of them fail with a retriable failure; the call is
\* then rejected with the error of the last attempt.
C3_AnyCeilingRespected ==
    (rpc # "idle" /\ (rRetry.given => rRetry.n >= 0))
        => CeilingRespected(IF rRetry.given THEN rRetry.n ELSE RETRY_ATTEMPTS)

\* C3 amended: the same for any ceiling N >= 1; a ceiling given as 0 counts
\* as not given, so that the ceiling is 3.
C3_PositiveCeilingRespected ==
    (rpc # "idle" /\ (rRetry.given => rRetry.n >= 0))
        => CeilingRespected(IF rRetry.given /\ rRetry.n >= 1
                            THEN rRetry.n ELSE RETRY_ATTEMPTS)

\* C3 witness: a ceiling of 2, two retriable failures, one delay, rejected
\* with the second failure.
C3_Witness ==
    /\ rpc = "rejected"
    /\ rRetry = [given |-> TRUE, n |-> 2]
    /\ served = <<0, 503>>
    /\ invocations = 2
    /\ delays = <<RETRY_DELAY>>
    /\ rResult.error.status = 503

\* The cookies whose name is csrf_token.
NamedCookies == {i \in 1..Len(cookie) : cookie[i][1] = "csrf_token"}
FirstNamedCookie ==
    CHOOSE i \in NamedCookies : \A j \in NamedCookies : i <= j
IsMutating(request) == request.method \in {"POST", "PUT", "DELETE"}

\* C4 as stated: a request carries X-CSRF-Token iff its verb is mutating and
\* a cookie named csrf_token or the csrf-token meta tag is present; a GET
\* never carries it; with both present the cookie's value is sent.
C4_TokenIffSourcePresent ==
    \A k \in 1..Len(sent) :
        LET r == sent[k]
        IN  /\ r.hasCSRF <=> (IsMutating(r) /\ (NamedCookies # {} \/ meta.present))
            /\ r.method = "GET" => ~r.hasCSRF
            /\ (IsMutating(r) /\ NamedCookies # {} /\ meta.present)
                  => r.csrf = cookie[FirstNamedCookie][2]

\* C4 amended: a request carries X-CSRF-Token iff its verb is mutating and a
\* non-empty token is found: the value of the first cookie matching
\* csrf_token=<one character or more>, or else the non-empty content of the
\* meta tag; a GET never carries it; when a cookie matches, its value is the
\* one sent, and the content of the meta tag otherwise.
C4_TokenIffTokenFound ==
    \A k \in 1..Len(sent) :
        LET r == sent[k]
            matching == {i \in 1..Len(cookie) :
                            /\ cookie[i][1] \in {"csrf_token", "xcsrf_token"}
                            /\ cookie[i][2] # ""}
        IN  /\ r.hasCSRF <=>
                  (IsMutating(r) /\ (matching # {} \/ (meta.present /\ meta.content # "")))
            /\ r.method = "GET" => ~r.hasCSRF
            /\ (r.hasCSRF /\ matching # {})
                  => \E i \in matching :
                        /\ \A j \in matching : i <= j
                        /\ r.csrf = cookie[i][2]
            /\ (r.hasCSRF /\ matching = {}) => r.csrf = meta.content

\* C4 witness: with a csrf_token cookie and a meta tag both holding a token,
\* a GET went out without the header and a POST with the cookie's value.
C4_Witness ==
    /\ cookie = <<<<"sid", "b">>, <<"csrf_token", "a">>>>
    /\ meta = [present |-> TRUE, content |-> "m"]
    /\ Len(sent) = 2
    /\ sent[1].method = "GET" /\ ~sent[1].hasCSRF
    /\ sent[2].method = "POST" /\ sent[2].hasCSRF /\ sent[2].csrf = "a"

\* What C5 says of a handled response, given which payloads count as
\* supplying a message and a code.
HandledAsSpecified(suppliesMessage(_), suppliesCode(_)) ==
    LET r    == outcome.result
        body == response.body
        data == IF body.parses THEN body.json ELSE NullPayload
    IN  IF ~ResponseOk(response)
        THEN /\ r.threw
             /\ r.error.status = response.status
             /\ r.error.code =
                    IF suppliesCode(data) THEN data.code ELSE "UNKNOWN_ERROR"
             /\ r.error.message =
                    IF suppliesMessage(data) THEN data.message
                    ELSE "HTTP " \o ToString(response.status)
        ELSE /\ ~r.threw
             /\ r.value = data

HasMessage(data) == ~data.null /\ data.hasMessage
HasCode(data)    == ~data.null /\ data.hasCode
HasNonEmptyMessage(data) == HasMessage(data) /\ data.message # ""
HasNonEmptyCode(data)    == HasCode(data) /\ data.code # ""

\* C5 as stated: a response that is not ok raises an error with the HTTP
\* status, the server's code or UNKNOWN_ERROR when the payload has none, and
\* the server's message or 'HTTP <status>' when the payload has none; an ok
\* response returns the parsed payload; an unparseable body is a null payload.
C5_ErrorCarriesServerFields ==
    outcome.handled => HandledAsSpecified(HasMessage, HasCode)

\* C5 amended: the same, with UNKNOWN_ERROR also when the server's code is
\* empty, and 'HTTP <status>' also when the server's message is empty.
C5_ErrorCarriesNonEmptyServerFields ==
    outcome.handled => HandledAsSpecified(HasNonEmptyMessage, HasNonEmptyCode)

\* C5 witness: a 404 whose body does not parse raised HTTP 404, UNKNOWN_ERROR.
C5_Witness ==
    /\ outcome.handled
    /\ response = [status |-> 404, body |-> Unparseable]
    /\ outcome.result.threw
    /\ outcome.result.error.message = "HTTP 404"
    /\ outcome.result.error.code = "UNKNOWN_ERROR"
    /\ outcome.result.error.data = NullPayload


(***************************************************************************)
(* The View Controller, src/js/app.js.                                     *)
(*                                                                         *)
(* A snapshot is a number: 0 is the empty value the constructor sets, and  *)
(* n > 0 is the data field of a server response.  For gold prices and      *)
(* currency rates n is the version the server held when it was asked; for  *)
(* the market status it tells open from closed.  A container shows the     *)
(* snapshot it was last rendered from.  The page is taken to hold every    *)
(* element the code looks up.                                              *)
(***************************************************************************)
Entities == {"store", "market", "gold", "currency"}

MarketData(open) == IF open THEN 2 ELSE 1
MarketStatusOf(data) == [isOpen |-> data = 2]

\* The server is out of the program's hands: its prices and rates move on
\* and its market opens and closes at any time.  The program sees the server
\* only when a request reaches it.  The prices and rates a request finds
\* are numbered by the request: 1 for init(), k + 1 for the k-th firing of
\* the refresh timer.  The market is found open or closed.
ServerData(entity, by) ==
    CASE entity = "store"    -> 1
      [] entity = "gold"     -> by + 1
      [] entity = "currency" -> by + 1

\* A fetch awaiting its response: by is 0 for init(), k for the k-th firing
\* of the refresh timer; data is what the server held when it was asked.
Fetch(entity, by, data) == [entity |-> entity, by |-> by, data |-> data]

\* What can come back: no response, or one of these.
NoAnswer == [net |-> TRUE, resp |-> [status |-> 0, body |-> Unparseable]]
Answer(r) == [net |-> FALSE, resp |-> r]
Answers(f) ==
    {NoAnswer} \cup
    {Answer(r) : r \in
        {[status |-> 200, body |-> Parsed(Object(FALSE, "", FALSE, "", TRUE, f.data))],
         [status |-> 200, body |-> Parsed(Object(TRUE, "msg", FALSE, "", FALSE, 0))],
         [status |-> 200, body |-> Unparseable],
         [status |-> 500, body |-> FailureBody]}}

\* GoldAPI.getAllPrices, CurrencyAPI.getAllRates, SettingsAPI.getStoreInfo,
\* SettingsAPI.checkMarketStatus: API.get(endpoint), as its awaiter sees it.
ApiGet(a) ==
    IF a.net THEN Thrown(TypeError("Failed to fetch")) ELSE handleResponse(a.resp)

\* const response = await ...; if (response.success) { ... }
\* "throws": the await threw, or response is null and reading success threw.
AwaitIgnoringSuccess(a) ==
    LET r == ApiGet(a)
    IN  IF r.threw \/ r.value.null THEN [kind |-> "throws", data |-> 0]
        ELSE [kind |-> "applies", data |-> r.value.data]

Await(a) ==
    LET r == ApiGet(a)
    IN  IF r.threw \/ r.value.null THEN [kind |-> "throws", data |-> 0]
        ELSE IF r.value.success THEN [kind |-> "applies", data |-> r.value.data]
        ELSE [kind |-> "skips", data |-> 0]

\* updateMarketStatus: the indicator, from the snapshot.
StatusText(status) == IF status.isOpen THEN "open" ELSE "closed"

\* setInterval: a timer of the runtime.
Timer(id, callback) == [id |-> id, callback |-> callback]
\* clearInterval(handle)
Cleared(timers, handle) == {t \in timers : t.id # handle}

\* The constructor and init() up to its first await: initClock has run and
\* fetchInitialData awaits the store info.
InitApp ==
    /\ DocIdle
    /\ sent = <<>>
    /\ RespIdle
    /\ RetryIdle
    /\ goldPrices = 0 /\ currencyRates = 0 /\ storeInfo = 0
    /\ marketStatus = [isOpen |-> FALSE]
    /\ updateInterval = 0
    /\ clockText = "even"
    /\ clockInterval = 1
    /\ intervals = {Timer(1, "updateClock")}
    /\ nextTimerId = 2
    /\ initPc = "store"
    /\ inflight = {Fetch("store", 0, ServerData("store", 0))}
    /\ listeners = FALSE
    /\ goldGrid = -1 /\ currencyGrid = -1 /\ statusShown = "template"
    /\ storeShown = -1 /\ errorBanner = ""
    /\ ticks = 0 /\ stops = 0 /\ errorsShown = 0
    /\ failedInit = {} /\ failedTick = {} /\ tickFetched = {}
    /\ tickOpen = FALSE
    /\ successBanner = "" /\ successTimeouts = <<>>
    /\ successAge = 0 /\ shows = 0

apiIdleVars == <<docVars, sent, respVars, retryVars>>
timerVars   == <<updateInterval, clockInterval, intervals, nextTimerId>>

\* showError
showError(message) ==
    /\ errorBanner' = message
    /\ errorsShown' = errorsShown + 1

\* init()'s catch block.
InitFails ==
    /\ initPc' = "failed"
    /\ showError("Failed to initialize application")

\* The end of a fetch, recorded.
Ends(f, kind) ==
    /\ failedInit' = IF f.by = 0 /\ kind = "throws"
                     THEN failedInit \cup {f.entity} ELSE failedInit
    /\ failedTick' = IF f.by # 0 /\ kind = "throws"
                     THEN failedTick \cup {f.entity} ELSE failedTick

\* fetchInitialData: the store info arrives; then the market status is asked.
StoreInfoArrives(f, a) ==
    /\ f \in inflight /\ f.entity = "store"
    /\ LET r == Await(a)
       IN  /\ Ends(f, r.kind)
           /\ IF r.kind = "throws"
              THEN /\ InitFails
                   /\ inflight' = inflight \ {f}
                   /\ UNCHANGED <<storeInfo, storeShown>>
              ELSE /\ IF r.kind = "applies"
                      THEN storeInfo' = r.data /\ storeShown' = r.data
                      ELSE UNCHANGED <<storeInfo, storeShown>>
                   /\ initPc' = "market"
                   /\ \E open \in BOOLEAN :
                        inflight' = (inflight \ {f})
                                       \cup {Fetch("market", 0, MarketData(open))}
                   /\ UNCHANGED <<errorBanner, errorsShown>>
    /\ UNCHANGED <<apiIdleVars, bannerVars, timerVars, goldPrices, currencyRates,
                   marketStatus, listeners, goldGrid, currencyGrid, statusShown,
                   clockText, ticks, stops, tickFetched, tickOpen>>

\* fetchInitialData: the market status arrives; then fetchGoldPrices is called.
MarketStatusArrives(f, a) ==
    /\ f \in inflight /\ f.entity = "market"
    /\ LET r == Await(a)
       IN  /\ Ends(f, r.kind)
           /\ IF r.kind = "throws"
              THEN /\ InitFails
                   /\ inflight' = inflight \ {f}
                   /\ UNCHANGED <<marketStatus, statusShown>>
              ELSE /\ IF r.kind = "applies"
                      THEN /\ marketStatus' = MarketStatusOf(r.data)
                           /\ statusShown' = StatusText(MarketStatusOf(r.data))
                      ELSE UNCHANGED <<marketStatus, statusShown>>
                   /\ initPc' = "gold"
                   /\ inflight' = (inflight \ {f})
                                     \cup {Fetch("gold", 0, ServerData("gold", 0))}
                   /\ UNCHANGED <<errorBanner, errorsShown>>
    /\ UNCHANGED <<apiIdleVars, bannerVars, timerVars, goldPrices, currencyRates,
                   storeInfo, listeners, goldGrid, currencyGrid, storeShown,
                   clockText, ticks, stops, tickFetched, tickOpen>>

\* The catch block of fetchGoldPrices and of fetchCurrencyRates:
\* console.error, and nothing else.
catchFetchErrorWithBanner ==
    showError("Failed to fetch")

catchFetchError ==
    UNCHANGED <<errorBanner, errorsShown>>

\* fetchGoldPrices after its await; when init() called it, fetchInitialData
\* goes on to call fetchCurrencyRates.
GoldPricesArrive(f, a) ==
    /\ f \in inflight /\ f.entity = "gold"
    /\ LET r == Await(a)
       IN  /\ Ends(f, r.kind)
           /\ IF r.kind = "applies"
              THEN goldPrices' = r.data /\ goldGrid' = r.data
              ELSE UNCHANGED <<goldPrices, goldGrid>>
           /\ IF r.kind = "throws"
              THEN catchFetchError
              ELSE UNCHANGED <<errorBanner, errorsShown>>
    /\ IF f.by = 0
       THEN /\ initPc' = "currency"
            /\ inflight' = (inflight \ {f})
                              \cup {Fetch("currency", 0, ServerData("currency", 0))}
       ELSE /\ inflight' = inflight \ {f}
            /\ UNCHANGED initPc
    /\ UNCHANGED <<apiIdleVars, bannerVars, timerVars, currencyRates, storeInfo,
                   marketStatus, listeners, currencyGrid, statusShown, storeShown,
                   clockText, ticks, stops, tickFetched, tickOpen>>

\* render()
render(gold, currency) ==
    /\ goldGrid' = gold
    /\ currencyGrid' = currency

\* startAutoUpdate
startAutoUpdate ==
    /\ updateInterval' = nextTimerId
    /\ intervals' = intervals \cup {Timer(nextTimerId, "refresh")}
    /\ nextTimerId' = nextTimerId + 1

\* fetchCurrencyRates after its await; when init() called it, init() goes on:
\* render(), startAutoUpdate(), attachEventListeners().
CurrencyRatesArrive(f, a) ==
    /\ f \in inflight /\ f.entity = "currency"
    /\ inflight' = inflight \ {f}
    /\ LET r       == Await(a)
           applied == IF r.kind = "applies" THEN r.data ELSE currencyRates
       IN  /\ Ends(f, r.kind)
           /\ currencyRates' = applied
           /\ IF r.kind = "throws"
              THEN catchFetchError
              ELSE UNCHANGED <<errorBanner, errorsShown>>
           /\ IF f.by = 0
              THEN /\ render(goldPrices, applied)
                   /\ startAutoUpdate
                   /\ listeners' = TRUE
                   /\ initPc' = "ready"
              ELSE /\ currencyGrid' = IF r.kind = "applies" THEN applied ELSE currencyGrid
                   /\ UNCHANGED <<goldGrid, updateInterval, intervals, nextTimerId,
                                  listeners, initPc>>
    /\ UNCHANGED <<apiIdleVars, bannerVars, clockInterval, goldPrices,
                   storeInfo, marketStatus, statusShown, storeShown,
                   clockText, ticks, stops, tickFetched, tickOpen>>

\* The callback of startAutoUpdate's timer: fetchGoldPrices() and
\* fetchCurrencyRates() up to their awaits, then updateMarketStatus().
RefreshTick(open) ==
    /\ \E t \in intervals : t.callback = "refresh"
    /\ ticks < MaxTicks
    /\ ticks' = ticks + 1
    /\ tickOpen' = open
    /\ tickFetched' = {"gold", "currency"}
    /\ inflight' = inflight
          \cup {Fetch("gold", ticks + 1, ServerData("gold", ticks + 1)),
                Fetch("currency", ticks + 1, ServerData("currency", ticks + 1))}
    /\ statusShown' = StatusText(marketStatus)
    /\ UNCHANGED <<apiIdleVars, bannerVars, timerVars, goldPrices, currencyRates, storeInfo,
                   marketStatus, initPc, listeners, goldGrid, currencyGrid,
                   storeShown, errorBanner, clockText, stops, errorsShown,
                   failedInit, failedTick>>

\* The callback of initClock's timer, a second after the last updateClock.
\* Of the time written, the model keeps whether its second is even or odd.
ClockTick ==
    /\ \E t \in intervals : t.callback = "updateClock"
    /\ clockText' = IF clockText = "even" THEN "odd" ELSE "even"
    /\ UNCHANGED <<apiIdleVars, bannerVars, timerVars, goldPrices,
                   currencyRates, storeInfo, marketStatus, initPc, inflight,
                   listeners, goldGrid, currencyGrid, statusShown, storeShown,
                   errorBanner, ticks, stops, errorsShown, failedInit, failedTick,
                   tickFetched, tickOpen>>

\* stopAutoUpdate
stopAutoUpdateRefreshOnly ==
    /\ IF updateInterval # 0
       THEN updateInterval' = 0
       ELSE UNCHANGED updateInterval
    /\ UNCHANGED clockInterval
    /\ intervals' = Cleared(intervals, IF updateInterval # 0 THEN updateInterval ELSE 0)

stopAutoUpdate ==
    /\ IF updateInterval # 0
       THEN updateInterval' = 0
       ELSE UNCHANGED updateInterval
    /\ IF clockInterval # 0
       THEN clockInterval' = 0
       ELSE UNCHANGED clockInterval
    /\ intervals' =
          Cleared(Cleared(intervals, IF updateInterval # 0 THEN updateInterval ELSE 0),
                  IF clockInterval # 0 THEN clockInterval ELSE 0)

\* The beforeunload handler: window.app.stopAutoUpdate().
BeforeUnload ==
    /\ stops' = IF stops < 2 THEN stops + 1 ELSE stops
    /\ stopAutoUpdate
    /\ UNCHANGED <<apiIdleVars, bannerVars, nextTimerId, goldPrices,
                   currencyRates, storeInfo, marketStatus, initPc, inflight,
                   listeners, goldGrid, currencyGrid, statusShown, storeShown,
                   errorBanner, clockText, ticks, errorsShown, failedInit,
                   failedTick, tickFetched, tickOpen>>

NextApp ==
    \/ \E f \in inflight : \E a \in Answers(f) : StoreInfoArrives(f, a)
    \/ \E f \in inflight : \E a \in Answers(f) : MarketStatusArrives(f, a)
    \/ \E f \in inflight : \E a \in Answers(f) : GoldPricesArrive(f, a)
    \/ \E f \in inflight : \E a \in Answers(f) : CurrencyRatesArrive(f, a)
    \/ \E open \in BOOLEAN : RefreshTick(open)
    \/ ClockTick
    \/ BeforeUnload

SpecApp == InitApp /\ [][NextApp]_vars


(***************************************************************************)
(* SpecBanners: showSuccess and showError are called with any message at   *)
(* any time, while the rest of the page is at rest.  Time is counted in    *)
(* whole seconds.                                                          *)
(***************************************************************************)
Messages == {"a", "b"}

\* What showSuccess and showError leave alone.
restVars == <<apiIdleVars, timerVars, goldPrices, currencyRates, storeInfo,
              marketStatus, initPc, inflight, listeners, goldGrid, currencyGrid,
              statusShown, storeShown, clockText, ticks, stops, failedInit,
              failedTick, tickFetched, tickOpen>>

InitBanners ==
    /\ DocIdle
    /\ sent = <<>>
    /\ RespIdle
    /\ RetryIdle
    /\ AppIdle

\* showSuccess: the container is written and a timeout is registered.
showSuccess(message) ==
    /\ successBanner' = message
    /\ successTimeouts' = Append(successTimeouts, SUCCESS_CLEAR_DELAY)
    /\ successAge' = 0

\* app.showSuccess(message)
ShowSuccess(message) ==
    /\ shows < MaxShows
    /\ shows' = shows + 1
    /\ showSuccess(message)
    /\ UNCHANGED <<restVars, errorBanner, errorsShown>>

\* app.showError(message)
ShowError(message) ==
    /\ shows < MaxShows
    /\ shows' = shows + 1
    /\ showError(message)
    /\ UNCHANGED <<restVars, successBanner, successTimeouts, successAge>>

\* The callback of showSuccess's setTimeout, when its delay has elapsed:
\* container.innerHTML = ''.  Timeouts of equal delay fire oldest first.
SuccessTimeoutFires ==
    /\ successTimeouts # <<>>
    /\ Head(successTimeouts) = 0
    /\ successBanner' = ""
    /\ successTimeouts' = Tail(successTimeouts)
    /\ successAge' = 0
    /\ UNCHANGED <<restVars, errorBanner, errorsShown, shows>>

\* A second passes.  A timeout that is due fires before time moves on; with
\* no timeout pending the passing of time changes nothing.
SecondPasses ==
    /\ successTimeouts # <<>>
    /\ \A i \in 1..Len(successTimeouts) : successTimeouts[i] > 0
    /\ successTimeouts' = [i \in 1..Len(successTimeouts) |->
                              successTimeouts[i] - 1000]
    /\ successAge' = IF successBanner # "" THEN successAge + 1000 ELSE successAge
    /\ UNCHANGED <<restVars, successBanner, errorBanner, errorsShown, shows>>

NextBanners ==
    \/ \E m \in Messages : ShowSuccess(m)
    \/ \E m \in Messages : ShowError(m)
    \/ SuccessTimeoutFires
    \/ SecondPasses

SpecBanners == InitBanners /\ [][NextBanners]_vars


(***************************************************************************)
(* Properties of the View Controller.                                      *)
(***************************************************************************)
RefreshTimerRuns == \E t \in intervals : t.callback = "refresh"

\* C6: once one of the four fetches of init() has failed, initialization is
\* aborted: one error banner is shown, the application is not Ready and
\* never becomes so, and neither the refresh timer nor the listeners are
\* registered.
C6_InitFetchFailureAborts ==
    failedInit # {}
        => /\ initPc = "failed"
           /\ errorsShown = 1
           /\ errorBanner = "Failed to initialize application"
           /\ updateInterval = 0
           /\ ~RefreshTimerRuns
           /\ ~listeners

\* The responses to the fetches of the refresh timer's last firing are in.
TickResponsesArrived == \A f \in inflight : f.by # ticks

\* C7: every firing of the refresh timer fetches gold prices, currency rates
\* and market status, and once its responses have arrived, none of them a
\* failure, the market-status snapshot and the indicator show the server's
\* status as of that firing.
C7_TickRefetchesMarketStatus ==
    ticks > 0
        => /\ tickFetched = {"gold", "currency", "market"}
           /\ (TickResponsesArrived /\ failedTick = {})
                 => /\ marketStatus.isOpen = tickOpen
                    /\ statusShown = StatusText([isOpen |-> tickOpen])

\* A step in which the response to a fetch of the refresh timer arrives.
TickFetchEnds(f, a) ==
    \/ f.entity = "gold" /\ GoldPricesArrive(f, a)
    \/ f.entity = "currency" /\ CurrencyRatesArrive(f, a)

\* The step is the end of fetch f in its catch block.
EndsInCatch(f) ==
    \E a \in Answers(f) : Await(a).kind = "throws" /\ TickFetchEnds(f, a)

\* The step is the end of fetch f with success = true.
EndsApplied(f) ==
    \E a \in Answers(f) : Await(a).kind = "applies" /\ TickFetchEnds(f, a)

\* The step changes no snapshot, no rendered cards, no banner and no timer,
\* and takes no fetch but f out of those awaited.
Contained(f) ==
    /\ UNCHANGED <<goldPrices, currencyRates, goldGrid, currencyGrid>>
    /\ UNCHANGED <<errorBanner, errorsShown>>
    /\ UNCHANGED <<updateInterval, clockInterval, intervals>>
    /\ inflight' = inflight \ {f}

\* The step stores and renders what fetch f brought.
Applied(f) ==
    /\ f.entity = "gold" => goldPrices' = f.data /\ goldGrid' = f.data
    /\ f.entity = "currency" => currencyRates' = f.data /\ currencyGrid' = f.data

\* C8: a firing of the refresh timer issues both fetches; a failure of one
\* of them changes no snapshot and no rendered cards, shows no error banner,
\* leaves the timers as they are and leaves every other fetch awaiting its
\* response; the response to the other fetch, when it arrives with success,
\* is applied and rendered whether or not the first one failed; and the
\* refresh timer, once registered, runs until stopAutoUpdate is invoked.
C8_TickFailureIsContained ==
    [][/\ \A f \in inflight \ inflight' :
            f.by # 0 => /\ Contained(f) \/ ~EndsInCatch(f)
                        /\ Applied(f) \/ ~EndsApplied(f)
       /\ ticks' = ticks + 1
            => \A e \in {"gold", "currency"} :
                    \E f \in inflight' \ inflight : f.entity = e /\ f.by = ticks'
       /\ (RefreshTimerRuns /\ ~BeforeUnload) => RefreshTimerRuns'
      ]_vars

\* C8 witness: the refresh timer fired once; its gold fetch failed and its
\* currency fetch was applied (2 is the data of that firing, 1 of init());
\* no banner is shown and the timer still runs.
C8_Witness ==
    /\ ticks = 1 /\ inflight = {} /\ stops = 0
    /\ failedInit = {} /\ failedTick = {"gold"}
    /\ goldPrices = 1 /\ goldGrid = 1
    /\ currencyRates = 2 /\ currencyGrid = 2
    /\ errorBanner = "" /\ errorsShown = 0
    /\ RefreshTimerRuns /\ updateInterval # 0

\* C9: every invocation of stopAutoUpdate leaves both handles null and no
\* timer running, and an invocation that finds both handles null changes
\* nothing of the application.
C9_StopIsIdempotent ==
    [][BeforeUnload
          => /\ updateInterval' = 0
             /\ clockInterval' = 0
             /\ intervals' = {}
             /\ (updateInterval = 0 /\ clockInterval = 0)
                   => UNCHANGED <<apiIdleVars, bannerVars, timerVars, goldPrices, currencyRates,
                                  storeInfo, marketStatus, initPc, inflight,
                                  listeners, goldGrid, currencyGrid, statusShown,
                                  storeShown, errorBanner, clockText, ticks,
                                  errorsShown, tickFetched, tickOpen>>
      ]_vars

\* C9 witness: stopAutoUpdate was invoked twice while init() still awaited
\* its first response, so that nothing of the application ran in between.
C9_Witness ==
    /\ stops = 2
    /\ initPc = "store"
    /\ updateInterval = 0 /\ clockInterval = 0 /\ intervals = {}

\* C10: once stopAutoUpdate has been invoked, in whatever state of the
\* application, no timer runs.
C10_NoTimerAfterTeardown ==
    stops > 0 => intervals = {}

\* C11: a message shown fully replaces the content of its region; a success
\* message is cleared when it has been shown for 5 seconds, never earlier and
\* never later; the error banner changes only when showError replaces it.
C11_SuccessClearsAfterItsOwnDelay ==
    [][/\ \A m \in Messages : ShowSuccess(m) => successBanner' = m
       /\ \A m \in Messages : ShowError(m) => errorBanner' = m
       /\ (successBanner # "" /\ successBanner' = "")
             => successAge = SUCCESS_CLEAR_DELAY
       /\ successBanner # "" => successAge <= SUCCESS_CLEAR_DELAY
       /\ errorBanner' # errorBanner => \E m \in Messages : ShowError(m)
      ]_vars

\* The application was torn down after init() had completed: no timer runs
\* and none will be registered, so every fetch still awaited was in flight
\* when stopAutoUpdate was last invoked.
TornDownWhenReady == stops > 0 /\ initPc = "ready" /\ intervals = {}

\* C12: after teardown the response to a fetch that was in flight when
\* stopAutoUpdate was invoked modifies no snapshot and re-renders no
\* container.
C12_LateResponseIsNoOp ==
    [][TornDownWhenReady
          => /\ UNCHANGED <<goldPrices, currencyRates, marketStatus, storeInfo>>
             /\ UNCHANGED <<goldGrid, currencyGrid, statusShown, storeShown>>
      ]_vars

\* The four snapshots, by entity.
Snapshots ==
    [store |-> storeInfo, market |-> marketStatus,
     gold |-> goldPrices, currency |-> currencyRates]

\* The answer is a response of an ok status whose body is an object with
\* success = true; the data field of that object.
CarriesSuccess(a) ==
    /\ ~a.net
    /\ a.resp.status \in 200..299
    /\ a.resp.body.parses
    /\ ~a.resp.body.json.null
    /\ a.resp.body.json.success
DataOf(a) == a.resp.body.json.data

\* The snapshot that holds exactly the data of a response.
SnapshotOfData(entity, data) ==
    IF entity = "market" THEN MarketStatusOf(data) ELSE data

\* The step is the arrival of answer a to fetch f.
Arrives(f, a) ==
    \/ f.entity = "store" /\ StoreInfoArrives(f, a)
    \/ f.entity = "market" /\ MarketStatusArrives(f, a)
    \/ f.entity = "gold" /\ GoldPricesArrive(f, a)
    \/ f.entity = "currency" /\ CurrencyRatesArrive(f, a)

\* The step sets the snapshot of f's entity to exactly the data of answer a
\* and leaves the other three as they are.
Replaced(f, a) ==
    Snapshots' = [Snapshots EXCEPT
                     ![f.entity] = SnapshotOfData(f.entity, DataOf(a))]

\* C13: a snapshot changes only in a step in which a response with
\* success = true to a fetch of its own entity arrives; such a step sets it
\* to exactly the data of the response and leaves the other three unchanged;
\* the arrival of any other answer (no response, a failure status, an
\* unparseable body, success = false) and every other step (a clock tick,
\* a firing of the refresh timer with its render, a teardown) change none.
C13_SnapshotsReplacedWholeBySuccessOnly ==
    [][/\ Snapshots' # Snapshots
            => \E f \in inflight \ inflight' : \E a \in Answers(f) :
                    CarriesSuccess(a) /\ Arrives(f, a) /\ Replaced(f, a)
       /\ \A f \in inflight \ inflight' : \A a \in Answers(f) :
            /\ (CarriesSuccess(a) /\ Arrives(f, a)) => Replaced(f, a)
            /\ Snapshots' = Snapshots \/ CarriesSuccess(a) \/ ~Arrives(f, a)
      ]_vars

\* C13 witness: the refresh timer fired once; its gold response was applied
\* (2 is the data of that firing) and its currency fetch failed, after
\* init() had applied all four of its responses.
C13_Witness ==
    /\ ticks = 1 /\ inflight = {} /\ failedInit = {}
    /\ failedTick = {"currency"}
    /\ storeInfo = 1 /\ marketStatus = [isOpen |-> TRUE]
    /\ goldPrices = 2 /\ currencyRates = 1

\* C14: the prices and rates a request finds are numbered by the order in
\* which the requests were issued (ServerData), so a snapshot or a grid goes
\* backwards when its number decreases: no step makes the gold prices, the
\* currency rates or their rendered cards go backwards.
C14_SnapshotsNeverGoBackwards ==
    [][/\ goldPrices' >= goldPrices
       /\ goldGrid' >= goldGrid
       /\ currencyRates' >= currencyRates
       /\ currencyGrid' >= currencyGrid
      ]_vars

====
